---------------------------- MODULE Spec2Model ----------------------------
(***************************************************************************)
(* Model of engine.hpp (namespace textengine): console::log, the keyed     *)
(* collections Tree / Dialog / Decision, and the marker scanner            *)
(* Parser::parseMarkerValue / Parser::parseLine.                           *)
(*                                                                         *)
(* A std::string is a sequence of one-character strings.  A cursor         *)
(* (std::string::const_iterator) is a 1-based position; line.end() is      *)
(* Len(line) + 1.                                                          *)
(***************************************************************************)
EXTENDS Integers, Sequences, FiniteSets, TLC

\* ---------------------------------------------------------------- bounds
\* longest line over the full alphabet
MaxLen == 4
\* bytes behind the string's terminator that can be read before the access faults
MaxOverrun == 1
\* most messages console::out keeps in the modelled output stream
MaxOut == 2
\* most Dialogs and Decisions in the Tree, all together
MaxEntities == 2

VARIABLES
    \* console
    level_,     \* console::level_
    out,        \* what console::out has written, one entry per call
    lastLog,    \* the last console::log call and how it ended
    \* Tree / Dialog / Decision
    dialogs_,   \* Tree::dialogs_ : id -> Dialog (with its decisions_)
    dialogRef,  \* the Dialog& last returned by Tree::dialog, as the key it refers to
    decisionRef,\* the Decision& last returned by Dialog::decision, as <<dialog key, decision key>>
    \* Parser
    trim,       \* configure::trim_whitespaces_behind_markers
    line,       \* the line being scanned
    it,         \* the cursor
    curr,       \* Token &curr
    entry,      \* the token as it was handed to parseLine
    pc,         \* position in parseLine / parseMarkerValue
    marker,     \* parseMarkerValue's local `marker`
    linkType,   \* parseLine's local `linkType` ("" while an id marker is parsed)
    what        \* exception::message of the exception in flight (<<>> when none)

consoleVars == <<level_, out, lastLog>>
treeVars == <<dialogs_, dialogRef, decisionRef>>
parserVars == <<trim, line, it, curr, entry, pc, marker, linkType>>
vars == <<level_, out, lastLog, dialogs_, dialogRef, decisionRef,
          trim, line, it, curr, entry, pc, marker, linkType, what>>

\* ---------------------------------------------------------------- console
\* no exception is in flight
NoException == <<>>

\* configure::log_level values
Levels == 0..3
\* the messages handed to console::log in the console specification
Messages == {"m1", "m2"}

\* console::log without the level gate `level > level_`: whatever is no error and not
\* below 1 is written
LogOutcomeUngated(level, configured) ==
    IF level = 1 THEN "throw"
    ELSE IF level < 1 THEN "return"
    ELSE "out"

\* console::log(level, arg): "throw", "return" (nothing written) or "out"
LogOutcome(level, configured) ==
    IF level = 1 THEN "throw"
    ELSE IF level < 1 \/ level > configured THEN "return"
    ELSE "out"

NoLog == [level |-> 0, arg |-> "", configured |-> 1, before |-> <<>>]

\* console::logLevel
LogLevel ==
    \E l \in Levels :
        /\ level_' = l
        /\ UNCHANGED <<out, lastLog>>
        /\ UNCHANGED <<treeVars, parserVars, what>>

\* a console::log call: its arguments, level_ and the output at the call
LogRecord(level, arg) ==
    [level |-> level, arg |-> arg, configured |-> level_, before |-> out]

\* console::log, level == 1
LogThrow ==
    \E level \in Levels, arg \in Messages :
        /\ LogOutcome(level, level_) = "throw"
        /\ lastLog' = LogRecord(level, arg)
        /\ what' = <<arg>>
        /\ UNCHANGED <<level_, out>>
        /\ UNCHANGED <<treeVars, parserVars>>

\* console::log, level < 1 || level > level_
LogReturn ==
    \E level \in Levels, arg \in Messages :
        /\ LogOutcome(level, level_) = "return"
        /\ lastLog' = LogRecord(level, arg)
        /\ what' = NoException
        /\ UNCHANGED <<level_, out>>
        /\ UNCHANGED <<treeVars, parserVars>>

\* console::log, out(arg, args...)
LogOut ==
    \E level \in Levels, arg \in Messages :
        /\ LogOutcome(level, level_) = "out"
        /\ Len(out) < MaxOut
        /\ out' = Append(out, arg)
        /\ lastLog' = LogRecord(level, arg)
        /\ what' = NoException
        /\ UNCHANGED level_
        /\ UNCHANGED <<treeVars, parserVars>>

\* `what` after console::log(level, arg) called with the exception message arg
Raise(level, arg) == IF LogOutcome(level, level_) = "throw" THEN arg ELSE NoException

\* ---------------------------------------------------------------- Tree / Dialog / Decision
Ids == {"", "D1"}
Links == {"", "D2"}
Scores == {0, 1}
\* int _score = 0
DefaultScore == 0
NoRef == "<no reference>"
NoDecisionRef == <<>>
EmptyMap == [k \in {} |-> k]

\* Decision::Decision
NewDecision(id, message, link, enabled, score) ==
    [id_ |-> id, message_ |-> message, link_ |-> link, enabled_ |-> enabled, score_ |-> score]

\* Dialog::Dialog
NewDialog(id, message, link) ==
    [id_ |-> id, message_ |-> message, link_ |-> link, decisions_ |-> EmptyMap]

\* operator[]-style insertion: the value under a present key is replaced
MapInsertOverwrite(m, k, v) ==
    [map |-> [x \in DOMAIN m \cup {k} |-> IF x = k THEN v ELSE m[x]],
     second |-> k \notin DOMAIN m]

\* std::map::insert({k, v}): the map afterwards and the .second of the result
MapInsert(m, k, v) ==
    IF k \in DOMAIN m
    THEN [map |-> m, second |-> FALSE]
    ELSE [map |-> [x \in DOMAIN m \cup {k} |-> IF x = k THEN v ELSE m[x]], second |-> TRUE]

\* std::map::find(k) != end()
MapFind(m, k) == k \in DOMAIN m

\* Tree::dialog returning a copy (Dialog instead of Dialog &): the stored Dialog is not
\* the one changed
StoreDialogCopy(m, ref, d) == m

\* the stored Dialog a Dialog& from Tree::dialog refers to, replaced by d
StoreDialog(m, ref, d) == [m EXCEPT ![ref] = d]

\* the stored Decision a Decision& from Dialog::decision refers to, replaced by c
StoreDecision(m, ref, c) == [m EXCEPT ![ref[1]].decisions_[ref[2]] = c]

\* the Dialogs in the Tree and the Decisions in them
NumEntities ==
    Cardinality(DOMAIN dialogs_)
    + Cardinality(UNION {{<<k, c>> : c \in DOMAIN dialogs_[k].decisions_} : k \in DOMAIN dialogs_})

\* Tree::insertDialog (both overloads)
InsertDialogCall(id, message, link) ==
    LET r == MapInsert(dialogs_, id, NewDialog(id, message, link)) IN
    /\ id \in DOMAIN dialogs_ \/ NumEntities < MaxEntities
    /\ dialogs_' = r.map
    /\ what' = IF r.second = FALSE
               THEN Raise(1, <<"duplicate dialog id: ", id>>)
               ELSE NoException
    /\ UNCHANGED <<dialogRef, decisionRef>>
    /\ UNCHANGED <<consoleVars, parserVars>>

InsertDialog ==
    \E id \in Ids, message \in Messages, link \in Links : InsertDialogCall(id, message, link)

\* Tree::dialog; console::log(1, ...) throws, so line 338 runs only when the key was found
GetDialogCall(id) ==
    /\ IF MapFind(dialogs_, id)
       THEN dialogRef' = id /\ what' = NoException
       ELSE dialogRef' = dialogRef
            /\ what' = Raise(1, <<"cannot find dialog with id: ", id>>)
    /\ UNCHANGED <<dialogs_, decisionRef>>
    /\ UNCHANGED <<consoleVars, parserVars>>

GetDialog ==
    \E id \in Ids : GetDialogCall(id)

\* Dialog::message(const std::string &) on the Dialog& held
DialogMessageCall(message) ==
    /\ dialogRef # NoRef
    /\ dialogs_' = StoreDialog(dialogs_, dialogRef,
                               [dialogs_[dialogRef] EXCEPT !.message_ = message])
    /\ what' = NoException
    /\ UNCHANGED <<dialogRef, decisionRef>>
    /\ UNCHANGED <<consoleVars, parserVars>>

DialogMessage ==
    \E message \in Messages : DialogMessageCall(message)

\* Dialog::link(const std::string &) on the Dialog& held
DialogLinkCall(link) ==
    /\ dialogRef # NoRef
    /\ dialogs_' = StoreDialog(dialogs_, dialogRef,
                               [dialogs_[dialogRef] EXCEPT !.link_ = link])
    /\ what' = NoException
    /\ UNCHANGED <<dialogRef, decisionRef>>
    /\ UNCHANGED <<consoleVars, parserVars>>

DialogLink ==
    \E link \in Links : DialogLinkCall(link)

\* Dialog::insertDecision (both overloads) on the Dialog& held
InsertDecisionCall(id, message, link, enabled, score) ==
    LET d == dialogs_[dialogRef]
        r == MapInsert(d.decisions_, id, NewDecision(id, message, link, enabled, score))
    IN
    /\ dialogRef # NoRef
    /\ id \in DOMAIN d.decisions_ \/ NumEntities < MaxEntities
    /\ dialogs_' = StoreDialog(dialogs_, dialogRef, [d EXCEPT !.decisions_ = r.map])
    /\ what' = IF r.second = FALSE
               THEN Raise(1, <<"duplicate decision id: ", id>>)
               ELSE NoException
    /\ UNCHANGED <<dialogRef, decisionRef>>
    /\ UNCHANGED <<consoleVars, parserVars>>

\* called with the default arguments _enabled = true, _score = 0
InsertDecision ==
    \E id \in Ids, message \in Messages, link \in Links :
        InsertDecisionCall(id, message, link, TRUE, DefaultScore)

\* Dialog::decision on the Dialog& held
GetDecisionCall(id) ==
    /\ dialogRef # NoRef
    /\ IF MapFind(dialogs_[dialogRef].decisions_, id)
       THEN decisionRef' = <<dialogRef, id>> /\ what' = NoException
       ELSE decisionRef' = decisionRef
            /\ what' = Raise(1, <<"cannot find decision with id: ", id>>)
    /\ UNCHANGED <<dialogs_, dialogRef>>
    /\ UNCHANGED <<consoleVars, parserVars>>

GetDecision ==
    \E id \in Ids : GetDecisionCall(id)

DecisionAt(ref) == dialogs_[ref[1]].decisions_[ref[2]]

\* Decision::message(const std::string &) on the Decision& held
DecisionMessageCall(message) ==
    /\ decisionRef # NoDecisionRef
    /\ dialogs_' = StoreDecision(dialogs_, decisionRef,
                                 [DecisionAt(decisionRef) EXCEPT !.message_ = message])
    /\ what' = NoException
    /\ UNCHANGED <<dialogRef, decisionRef>>
    /\ UNCHANGED <<consoleVars, parserVars>>

DecisionMessage ==
    \E message \in Messages : DecisionMessageCall(message)

\* Decision::link(const std::string &) on the Decision& held
DecisionLinkCall(link) ==
    /\ decisionRef # NoDecisionRef
    /\ dialogs_' = StoreDecision(dialogs_, decisionRef,
                                 [DecisionAt(decisionRef) EXCEPT !.link_ = link])
    /\ what' = NoException
    /\ UNCHANGED <<dialogRef, decisionRef>>
    /\ UNCHANGED <<consoleVars, parserVars>>

DecisionLink ==
    \E link \in Links : DecisionLinkCall(link)

\* Decision::enabled(bool) on the Decision& held
DecisionEnabledCall(enabled) ==
    /\ decisionRef # NoDecisionRef
    /\ dialogs_' = StoreDecision(dialogs_, decisionRef,
                                 [DecisionAt(decisionRef) EXCEPT !.enabled_ = enabled])
    /\ what' = NoException
    /\ UNCHANGED <<dialogRef, decisionRef>>
    /\ UNCHANGED <<consoleVars, parserVars>>

DecisionEnabled ==
    \E enabled \in BOOLEAN : DecisionEnabledCall(enabled)

\* Decision::score(int) on the Decision& held
DecisionScoreCall(score) ==
    /\ decisionRef # NoDecisionRef
    /\ dialogs_' = StoreDecision(dialogs_, decisionRef,
                                 [DecisionAt(decisionRef) EXCEPT !.score_ = score])
    /\ what' = NoException
    /\ UNCHANGED <<dialogRef, decisionRef>>
    /\ UNCHANGED <<consoleVars, parserVars>>

DecisionScore ==
    \E score \in Scores : DecisionScoreCall(score)

\* ---------------------------------------------------------------- Parser
Alphabet == {"$", "[", "]", " ", "T", "t", "D", "d", "a"}
MarkerChars == {"$", "[", "]"}
\* the '\0' a std::string keeps at data()[size()]
NUL == "NUL"
\* an access the build stops the program at
FAULT == "FAULT"

Str(S, n) == UNION {[1..k -> S] : k \in 0..n}

\* the lines scanned: all short lines, and the longer ones made of marker characters
Lines == Str(Alphabet, MaxLen) \cup Str(MarkerChars, MaxLen + 2)

\* Parser::Token with its default member initializers
Fresh ==
    [text |-> <<>>, id |-> <<>>, link |-> <<>>, isTreeLink |-> FALSE,
     hasId |-> FALSE, hasLink |-> FALSE]

\* a token carried over from the line before, which held an id, a tree link and text
Carried ==
    [text |-> <<"a">>, id |-> <<"a">>, link |-> <<"a">>, isTreeLink |-> TRUE,
     hasId |-> TRUE, hasLink |-> TRUE]

EntryTokens == {Fresh, Carried}

\* line.end()
End == Len(line) + 1

\* the bytes behind the terminator, one for each kind the scanner tells apart:
\* '$', '[', ']', ' ', a tree letter, a dialog letter, any other byte
Garbage == {"$", "[", "]", " ", "T", "d", "a"}

\* *it with the cursor at p.  Inside the line it is the character; at end() it is
\* the terminator, or the access is stopped (checked iterators); behind end() it is
\* whatever byte lies there, or the access faults.
Deref(p) ==
    IF p < End THEN {line[p]}
    ELSE IF p = End THEN {NUL, FAULT}
    ELSE IF p <= End + MaxOverrun THEN Garbage \cup {FAULT}
    ELSE {FAULT}

\* the link kind taken from the upper-case letter only
IsTreeLinkTypeUpper(c) == c = "T"

\* linkType == 'T' || linkType == 't'  (line 436)
IsTreeLinkType(c) == c = "T" \/ c = "t"

\* *it == 'T' || *it == 't' || *it == 'D' || *it == 'd'  (line 422)
IsLinkLetter(c) == c = "T" \/ c = "t" \/ c = "D" \/ c = "d"

\* lines 414-415: flip hasId, take the id when the flag became true
IdMarker(tok, m) ==
    IF ~tok.hasId
    THEN [tok EXCEPT !.hasId = TRUE, !.id = m]
    ELSE [tok EXCEPT !.hasId = FALSE]

\* lines 431-432: flip hasLink, take the link when the flag became true
LinkMarker(tok, m) ==
    IF ~tok.hasLink
    THEN [tok EXCEPT !.hasLink = TRUE, !.link = m]
    ELSE [tok EXCEPT !.hasLink = FALSE]

\* lines 436-439
LinkKind(tok, c) == [tok EXCEPT !.isTreeLink = IsTreeLinkType(c)]

\* the position the cursor is read at in the next step
ReadPos == IF pc \in {"marker", "trim"} THEN it + 1 ELSE it

\* the next step dereferences the cursor
Reads ==
    \/ pc \in {"dollar", "link"}
    \/ pc = "loop" /\ it # End
    \/ pc \in {"marker", "trim"} /\ it + 1 # End

\* parseLine after parseMarkerValue returned `m` with the cursor at p:
\* lines 414-417 or 431-439, then it++ (line 455)
AfterMarker(m, p) ==
    LET isId == linkType = ""
        tok == IF isId THEN IdMarker(curr, m) ELSE LinkMarker(curr, m)
        accepted == IF isId THEN tok.hasId ELSE tok.hasLink
        message == IF isId THEN <<"found another id within token: ">> \o m
                   ELSE <<"found another link within token: ">> \o m
        thrown == IF accepted THEN NoException ELSE Raise(1, message)
    IN
    /\ marker' = <<>>
    /\ linkType' = ""
    /\ what' = thrown
    /\ IF thrown # NoException
       THEN curr' = tok /\ it' = p /\ pc' = "fatal"
       ELSE /\ curr' = IF isId THEN tok ELSE LinkKind(tok, linkType)
            /\ it' = p + 1
            /\ pc' = "loop"

\* line 404: it == line.end(), parseLine returns curr
Return ==
    /\ pc = "loop"
    /\ it = End
    /\ pc' = "done"
    /\ UNCHANGED <<trim, line, it, curr, entry, marker, linkType, what>>
    /\ UNCHANGED <<consoleVars, treeVars>>

\* a dereference of the cursor at or behind end() that the build stops
Crash ==
    /\ Reads
    /\ FAULT \in Deref(ReadPos)
    /\ pc' = "crashed"
    /\ UNCHANGED <<trim, line, it, curr, entry, marker, linkType, what>>
    /\ UNCHANGED <<consoleVars, treeVars>>

\* lines 452-455: an ordinary character
ScanText ==
    \E c \in Deref(it) \ {FAULT} :
        /\ pc = "loop"
        /\ it # End
        /\ c # "$"
        /\ curr' = [curr EXCEPT !.text = Append(@, c)]
        /\ it' = it + 1
        /\ UNCHANGED <<trim, line, entry, pc, marker, linkType, what>>
        /\ UNCHANGED <<consoleVars, treeVars>>

\* lines 407-409: '$', it++
ScanDollar ==
    \E c \in Deref(it) \ {FAULT} :
        /\ pc = "loop"
        /\ it # End
        /\ c = "$"
        /\ it' = it + 1
        /\ pc' = "dollar"
        /\ UNCHANGED <<trim, line, curr, entry, marker, linkType, what>>
        /\ UNCHANGED <<consoleVars, treeVars>>

\* lines 411-413: "$[", parseMarkerValue is entered
OpenIdMarker ==
    \E c \in Deref(it) \ {FAULT} :
        /\ pc = "dollar"
        /\ c = "["
        /\ pc' = "marker"
        /\ marker' = <<>>
        /\ linkType' = ""
        /\ UNCHANGED <<trim, line, it, curr, entry, what>>
        /\ UNCHANGED <<consoleVars, treeVars>>

\* lines 422-425: "$T", "$t", "$D" or "$d", it++
LinkLetter ==
    \E c \in Deref(it) \ {FAULT} :
        /\ pc = "dollar"
        /\ c # "["
        /\ IsLinkLetter(c)
        /\ linkType' = c
        /\ it' = it + 1
        /\ pc' = "link"
        /\ UNCHANGED <<trim, line, curr, entry, marker, what>>
        /\ UNCHANGED <<consoleVars, treeVars>>

\* lines 448-449, 455: '$' and the character behind it go to the text
LiteralDollar ==
    \E c \in Deref(it) \ {FAULT} :
        /\ pc = "dollar"
        /\ c # "["
        /\ ~IsLinkLetter(c)
        /\ curr' = [curr EXCEPT !.text = @ \o <<"$", c>>]
        /\ it' = it + 1
        /\ pc' = "loop"
        /\ UNCHANGED <<trim, line, entry, marker, linkType, what>>
        /\ UNCHANGED <<consoleVars, treeVars>>

\* lines 428-430: "$T[" and the like, parseMarkerValue is entered
OpenLinkMarker ==
    \E c \in Deref(it) \ {FAULT} :
        /\ pc = "link"
        /\ c = "["
        /\ pc' = "marker"
        /\ marker' = <<>>
        /\ UNCHANGED <<trim, line, it, curr, entry, linkType, what>>
        /\ UNCHANGED <<consoleVars, treeVars>>

\* lines 443-444, 455: '$', the letter and the character behind it go to the text
LiteralLink ==
    \E c \in Deref(it) \ {FAULT} :
        /\ pc = "link"
        /\ c # "["
        /\ curr' = [curr EXCEPT !.text = @ \o <<"$", linkType, c>>]
        /\ it' = it + 1
        /\ pc' = "loop"
        /\ linkType' = ""
        /\ UNCHANGED <<trim, line, entry, marker, what>>
        /\ UNCHANGED <<consoleVars, treeVars>>

\* lines 387-388: ++it, a character of the marker
MarkerChar ==
    \E c \in Deref(it + 1) \ {FAULT} :
        /\ pc = "marker"
        /\ it + 1 # End
        /\ c # "]"
        /\ marker' = Append(marker, c)
        /\ it' = it + 1
        /\ UNCHANGED <<trim, line, curr, entry, pc, linkType, what>>
        /\ UNCHANGED <<consoleVars, treeVars>>

\* the first loop of parseMarkerValue has ended with the cursor at p
MarkerDone(p) ==
    IF trim
    THEN /\ it' = p
         /\ pc' = "trim"
         /\ UNCHANGED <<curr, marker, linkType, what>>
    ELSE AfterMarker(marker, p)

\* line 387: ++it reaches ']'
MarkerClose ==
    \E c \in Deref(it + 1) \ {FAULT} :
        /\ pc = "marker"
        /\ it + 1 # End
        /\ c = "]"
        /\ MarkerDone(it + 1)
        /\ UNCHANGED <<trim, line, entry>>
        /\ UNCHANGED <<consoleVars, treeVars>>

\* line 387: ++it reaches line.end()
MarkerUnterminated ==
    /\ pc = "marker"
    /\ it + 1 = End
    /\ MarkerDone(it + 1)
    /\ UNCHANGED <<trim, line, entry>>
    /\ UNCHANGED <<consoleVars, treeVars>>

\* lines 391-393: ++it, a space behind the marker
TrimSpace ==
    \E c \in Deref(it + 1) \ {FAULT} :
        /\ pc = "trim"
        /\ it + 1 # End
        /\ c = " "
        /\ it' = it + 1
        /\ UNCHANGED <<trim, line, curr, entry, pc, marker, linkType, what>>
        /\ UNCHANGED <<consoleVars, treeVars>>

\* lines 392-395: ++it reaches line.end() or a character that is no space
TrimStop ==
    /\ pc = "trim"
    /\ \/ it + 1 = End
       \/ \E c \in Deref(it + 1) \ {FAULT} : c # " "
    /\ AfterMarker(marker, it + 1)
    /\ UNCHANGED <<trim, line, entry>>
    /\ UNCHANGED <<consoleVars, treeVars>>

ParserNext ==
    \/ Return
    \/ Crash
    \/ ScanText
    \/ ScanDollar
    \/ OpenIdMarker
    \/ LinkLetter
    \/ LiteralDollar
    \/ OpenLinkMarker
    \/ LiteralLink
    \/ MarkerChar
    \/ MarkerClose
    \/ MarkerUnterminated
    \/ TrimSpace
    \/ TrimStop

TreeNext ==
    \/ InsertDialog
    \/ GetDialog
    \/ DialogMessage
    \/ DialogLink
    \/ InsertDecision
    \/ GetDecision
    \/ DecisionMessage
    \/ DecisionLink
    \/ DecisionEnabled
    \/ DecisionScore

ConsoleNext ==
    \/ LogLevel
    \/ LogThrow
    \/ LogReturn
    \/ LogOut

\* parseLine is entered with the cursor at line.begin(); the console has its static
\* initial values (lines 494-495) and no Tree is involved
ParserInit ==
    /\ trim \in BOOLEAN
    /\ line \in Lines
    /\ entry \in EntryTokens
    /\ curr = entry
    /\ it = 1
    /\ pc = "loop"
    /\ marker = <<>>
    /\ linkType = ""
    /\ what = NoException
    /\ level_ = 1
    /\ out = <<>>
    /\ lastLog = NoLog
    /\ dialogs_ = EmptyMap
    /\ dialogRef = NoRef
    /\ decisionRef = NoDecisionRef

\* Tree::Tree: no Dialog yet; no line is being scanned
TreeInit ==
    /\ dialogs_ = EmptyMap
    /\ dialogRef = NoRef
    /\ decisionRef = NoDecisionRef
    /\ what = NoException
    /\ level_ = 1
    /\ out = <<>>
    /\ lastLog = NoLog
    /\ trim = TRUE
    /\ line = <<>>
    /\ entry = Fresh
    /\ curr = Fresh
    /\ it = 1
    /\ pc = "done"
    /\ marker = <<>>
    /\ linkType = ""

\* lines 494-495: the console's static initial values; no Tree, no line
ConsoleInit ==
    /\ level_ = 1
    /\ out = <<>>
    /\ lastLog = NoLog
    /\ what = NoException
    /\ dialogs_ = EmptyMap
    /\ dialogRef = NoRef
    /\ decisionRef = NoDecisionRef
    /\ trim = TRUE
    /\ line = <<>>
    /\ entry = Fresh
    /\ curr = Fresh
    /\ it = 1
    /\ pc = "done"
    /\ marker = <<>>
    /\ linkType = ""

\* Parser::parseLine on one line
Spec == ParserInit /\ [][ParserNext]_vars

\* a Tree and the Dialogs and Decisions it owns
TreeSpec == TreeInit /\ [][TreeNext]_vars

\* console::logLevel and console::log
ConsoleSpec == ConsoleInit /\ [][ConsoleNext]_vars

\* ---------------------------------------------------------------- the line, read without the scanner
LetterOfLink == {"T", "t", "D", "d"}

\* the positions of '$' in the line
Dollars == {i \in 1..Len(line) : line[i] = "$"}

\* the first '$' of the line (0 when there is none)
FirstDollar == IF Dollars = {} THEN 0 ELSE CHOOSE i \in Dollars : \A j \in Dollars : i <= j

\* the '[' that makes the '$' at p a marker: p + 1, or p + 2 behind a link letter (0: none)
BracketOf(p) ==
    IF p = 0 THEN 0
    ELSE IF p + 1 <= Len(line) /\ line[p + 1] = "[" THEN p + 1
    ELSE IF p + 2 <= Len(line) /\ line[p + 1] \in LetterOfLink /\ line[p + 2] = "[" THEN p + 2
    ELSE 0

\* the next ']' behind position b (0: none)
CloseOf(b) ==
    LET closes == {q \in (b + 1)..Len(line) : line[q] = "]"}
    IN IF b = 0 \/ closes = {} THEN 0 ELSE CHOOSE q \in closes : \A r \in closes : q <= r

\* s without the spaces it starts with
RECURSIVE StripSpaces(_)
StripSpaces(s) == IF s # <<>> /\ Head(s) = " " THEN StripSpaces(Tail(s)) ELSE s

\* the line holds exactly one '$', and it opens a marker that is closed
OneClosedMarker ==
    /\ Cardinality(Dollars) = 1
    /\ CloseOf(BracketOf(FirstDollar)) # 0

MarkerOpen == BracketOf(FirstDollar)
MarkerEnd == CloseOf(MarkerOpen)
MarkerContent == SubSeq(line, MarkerOpen + 1, MarkerEnd - 1)
BeforeMarker == SubSeq(line, 1, FirstDollar - 1)
BehindMarker == SubSeq(line, MarkerEnd + 1, Len(line))

\* ---------------------------------------------------------------- claims

\* C1: a fresh token, a line with one closed marker: when parseLine has returned, the text
\* is what stands before the marker and then what follows it, without the spaces directly
\* behind ']' when trim_whitespaces_behind_markers is set, verbatim when it is not.
C1_TextBehindMarker ==
    (entry = Fresh /\ OneClosedMarker /\ pc = "done")
        => curr.text = BeforeMarker \o (IF trim THEN StripSpaces(BehindMarker) ELSE BehindMarker)

C3_LiteralDollar ==
    (\A i \in 1..Len(line) : line[i] # "[")
        => /\ pc \notin {"crashed", "fatal"}
           /\ it <= End
           /\ curr.id = entry.id /\ curr.hasId = entry.hasId
           /\ curr.link = entry.link /\ curr.hasLink = entry.hasLink
           /\ curr.isTreeLink = entry.isTreeLink
           /\ Len(curr.text) <= Len(entry.text) + Len(line)
           /\ curr.text = SubSeq(entry.text \o line, 1, Len(curr.text))
           /\ (pc = "done" => curr.text = entry.text \o line)

\* the line is two closed id markers, the second directly behind the first
TwoIdMarkers ==
    /\ FirstDollar = 1
    /\ MarkerOpen = 2
    /\ MarkerEnd # 0
    /\ MarkerEnd + 2 <= Len(line)
    /\ line[MarkerEnd + 1] = "$"
    /\ line[MarkerEnd + 2] = "["
    /\ CloseOf(MarkerEnd + 2) # 0

\* C4: a fresh token, a line "$[a]$[b]": parseLine does not return normally, the second
\* marker is reported by an exception; the id is the first marker's and no text is added.
C4_DuplicateIdReported ==
    (entry = Fresh /\ TwoIdMarkers)
        => /\ pc # "done"
           /\ curr.text = <<>>
           /\ (pc = "fatal" =>
                 /\ curr.id = MarkerContent
                 /\ what = <<"found another id within token: ">>
                           \o SubSeq(line, MarkerEnd + 3, CloseOf(MarkerEnd + 2) - 1))

\* the first '$' opens an id marker that no ']' closes
UnterminatedIdMarker ==
    /\ FirstDollar # 0
    /\ MarkerOpen = FirstDollar + 1
    /\ MarkerEnd = 0

\* C6: a fresh token, a line whose id marker is not closed: the rest of the line becomes the
\* id, nothing is raised, nothing is added to the text, and the scan ends at the end of the line.
C6_UnterminatedMarker ==
    (entry = Fresh /\ UnterminatedIdMarker)
        => /\ pc \notin {"crashed", "fatal"}
           /\ it <= End
           /\ Len(curr.text) <= FirstDollar - 1
           /\ (pc = "done" =>
                 /\ curr.id = SubSeq(line, MarkerOpen + 1, Len(line))
                 /\ curr.text = BeforeMarker)

\* C10: the cursor never passes line.end(), it is not dereferenced at or behind line.end(),
\* and no access is stopped by the build.
C10_CursorInsideLine ==
    /\ it <= End
    /\ (Reads => ReadPos < End)
    /\ pc # "crashed"

\* C5: Tree::insertDialog and Dialog::insertDecision add the entity under an absent id and
\* leave every other entry as it was; under a present id they throw "duplicate ... id" and
\* leave the whole collection as it was.
C5_InsertKeepsFirst ==
    [][/\ \A id \in Ids, message \in Messages, link \in Links :
            InsertDialogCall(id, message, link) =>
                IF id \in DOMAIN dialogs_
                THEN /\ dialogs_' = dialogs_
                     /\ what' = <<"duplicate dialog id: ", id>>
                ELSE /\ DOMAIN dialogs_' = DOMAIN dialogs_ \cup {id}
                     /\ dialogs_'[id].id_ = id
                     /\ dialogs_'[id].message_ = message
                     /\ dialogs_'[id].link_ = link
                     /\ DOMAIN dialogs_'[id].decisions_ = {}
                     /\ \A k \in DOMAIN dialogs_ : dialogs_'[k] = dialogs_[k]
                     /\ what' = NoException
       /\ \A id \in Ids, message \in Messages, link \in Links :
            dialogRef # NoRef /\ InsertDecisionCall(id, message, link, TRUE, DefaultScore) =>
                LET old == dialogs_[dialogRef].decisions_
                    new == dialogs_'[dialogRef].decisions_
                    enabled == TRUE
                    score == DefaultScore
                IN
                IF id \in DOMAIN old
                THEN /\ dialogs_' = dialogs_
                     /\ what' = <<"duplicate decision id: ", id>>
                ELSE /\ DOMAIN dialogs_' = DOMAIN dialogs_
                     /\ \A k \in DOMAIN dialogs_ \ {dialogRef} : dialogs_'[k] = dialogs_[k]
                     /\ dialogs_'[dialogRef] = [dialogs_[dialogRef] EXCEPT !.decisions_ = new]
                     /\ DOMAIN new = DOMAIN old \cup {id}
                     /\ new[id] = [id_ |-> id, message_ |-> message, link_ |-> link,
                                   enabled_ |-> enabled, score_ |-> score]
                     /\ \A c \in DOMAIN old : new[c] = old[c]
                     /\ what' = NoException
      ]_vars

\* C5 witness: a second insertDialog under a present id was refused in a Tree of two
\* Dialogs, whose messages and links are those of the first insertions
C5_Witness ==
    /\ what = <<"duplicate dialog id: ", "D1">>
    /\ DOMAIN dialogs_ = {"", "D1"}
    /\ dialogs_["D1"] = NewDialog("D1", "m1", "D2")
    /\ dialogs_[""] = NewDialog("", "m2", "")

\* C8: Tree::dialog and Dialog::decision leave the collection as it was, throw "cannot
\* find ..." for an absent id and return the stored entity for a present one; a setter
\* called on the reference returned changes the stored entity, and nothing else.
C8_LookupFrame ==
    [][/\ \A id \in Ids :
            GetDialogCall(id) =>
                /\ dialogs_' = dialogs_
                /\ IF id \in DOMAIN dialogs_
                   THEN dialogRef' = id /\ what' = NoException
                   ELSE what' = <<"cannot find dialog with id: ", id>>
       /\ \A id \in Ids :
            GetDecisionCall(id) =>
                /\ dialogs_' = dialogs_
                /\ IF id \in DOMAIN dialogs_[dialogRef].decisions_
                   THEN decisionRef' = <<dialogRef, id>> /\ what' = NoException
                   ELSE what' = <<"cannot find decision with id: ", id>>
       /\ \A message \in Messages :
            DialogMessageCall(message) =>
                dialogs_' = [dialogs_ EXCEPT ![dialogRef].message_ = message]
       /\ \A link \in Links :
            DialogLinkCall(link) =>
                dialogs_' = [dialogs_ EXCEPT ![dialogRef].link_ = link]
       /\ \A message \in Messages :
            DecisionMessageCall(message) =>
                dialogs_' = [dialogs_ EXCEPT
                                ![decisionRef[1]].decisions_[decisionRef[2]].message_ = message]
       /\ \A link \in Links :
            DecisionLinkCall(link) =>
                dialogs_' = [dialogs_ EXCEPT
                                ![decisionRef[1]].decisions_[decisionRef[2]].link_ = link]
       /\ \A enabled \in BOOLEAN :
            DecisionEnabledCall(enabled) =>
                dialogs_' = [dialogs_ EXCEPT
                                ![decisionRef[1]].decisions_[decisionRef[2]].enabled_ = enabled]
       /\ \A score \in Scores :
            DecisionScoreCall(score) =>
                dialogs_' = [dialogs_ EXCEPT
                                ![decisionRef[1]].decisions_[decisionRef[2]].score_ = score]
      ]_vars

\* C8 witness: a Decision was looked up and changed through the reference, then a lookup
\* of an absent Dialog failed
C8_Witness ==
    /\ what = <<"cannot find dialog with id: ", "">>
    /\ DOMAIN dialogs_ = {"D1"}
    /\ decisionRef = <<"D1", "D1">>
    /\ dialogs_["D1"].decisions_["D1"].score_ = 1
    /\ dialogs_["D1"].message_ = "m2"

\* C9: no Dialog in the Tree and no Decision in a Dialog is stored with an empty id.
C9_NoEmptyId ==
    \A k \in DOMAIN dialogs_ :
        /\ k # ""
        /\ dialogs_[k].id_ # ""
        /\ \A c \in DOMAIN dialogs_[k].decisions_ :
              c # "" /\ dialogs_[k].decisions_[c].id_ # ""

\* what the last console::log call wrote
Written == IF out = lastLog.before THEN <<>> ELSE SubSeq(out, Len(lastLog.before) + 1, Len(out))

\* C7 as stated: severity 0 writes nothing and returns; severity 1 throws the message,
\* whatever the level; severity 2 is written and returns; severity 3 returns and is
\* written only at level 3 or more.
C7_Severities ==
    /\ out = lastLog.before \o Written
    /\ lastLog.level = 0 => what = NoException /\ Written = <<>>
    /\ lastLog.level = 1 => what = <<lastLog.arg>> /\ Written = <<>>
    /\ lastLog.level = 2 => what = NoException /\ Written = <<lastLog.arg>>
    /\ lastLog.level = 3 =>
          /\ what = NoException
          /\ Written = IF lastLog.configured >= 3 THEN <<lastLog.arg>> ELSE <<>>

\* C7 amended: as C7, but a severity-2 call is written only at level 2 or more.
C7_SeveritiesAmended ==
    /\ out = lastLog.before \o Written
    /\ lastLog.level = 0 => what = NoException /\ Written = <<>>
    /\ lastLog.level = 1 => what = <<lastLog.arg>> /\ Written = <<>>
    /\ lastLog.level = 2 =>
          /\ what = NoException
          /\ Written = IF lastLog.configured >= 2 THEN <<lastLog.arg>> ELSE <<>>
    /\ lastLog.level = 3 =>
          /\ what = NoException
          /\ Written = IF lastLog.configured >= 3 THEN <<lastLog.arg>> ELSE <<>>

\* C7 witness: a warning logged at the default level 1 was not written
C7_Witness ==
    /\ lastLog.level = 2
    /\ lastLog.configured = 1
    /\ lastLog.arg = "m1"
    /\ lastLog.before = <<"m2">>
    /\ out = <<"m2">>
    /\ what = NoException

=============================================================================
